---- MODULE Spec2Model ----
(***************************************************************************)
(* Invoicing backend: the invoice routes (create, patch, pay) over the     *)
(* row store.  Numbers that the code handles as JavaScript numbers are     *)
(* modelled as exact rationals <<numerator, denominator>>; on the inputs   *)
(* enumerated here the double-precision results of the code coincide with  *)
(* the exact ones.  Amounts (integer minor units) are plain integers.      *)
(***************************************************************************)
EXTENDS Integers, Sequences, FiniteSets, TLC

(***************************************************************************)
(* Bounds of the model.                                                    *)
(***************************************************************************)
MaxInvoices == 1

(***************************************************************************)
(* JavaScript / SQL values: every value carries its type tag, so that      *)
(* typeof x !== 'undefined', Array.isArray(x), x ?? d and x || d can be    *)
(* written as the code writes them.                                        *)
(***************************************************************************)
Undefined == [t |-> "undefined"]
Null == [t |-> "null"]
Num(n) == [t |-> "number", v |-> n]
Str(s) == [t |-> "string", v |-> s]
Arr(s) == [t |-> "array", v |-> s]

IsDefined(x) == x.t # "undefined"
IsArray(x) == x.t = "array"

(***************************************************************************)
(* Exact rational arithmetic for the number operations of the handlers.    *)
(***************************************************************************)
RECURSIVE Gcd(_, _)
Gcd(a, b) == IF b = 0 THEN a ELSE Gcd(b, a % b)

\* n/d in lowest terms (n >= 0, d > 0).
Rat(n, d) == <<n \div Gcd(n, d), d \div Gcd(n, d)>>
RAdd(a, b) == Rat(a[1] * b[2] + b[1] * a[2], a[2] * b[2])
RMul(a, b) == Rat(a[1] * b[1], a[2] * b[2])
RDiv(a, b) == Rat(a[1] * b[2], a[2] * b[1])
RPos(a) == a[1] > 0
RNonNeg(a) == a[1] >= 0
RLeq(a, b) == a[1] * b[2] <= b[1] * a[2]
RIsZero(a) == a[1] = 0

\* Math.round: nearest integer, ties towards +Infinity, i.e. floor(x + 1/2).
MathFloor(x) == x[1] \div x[2]
MathRound(x) == (2 * x[1] + x[2]) \div (2 * x[2])

(***************************************************************************)
(* Inputs of the requests.                                                 *)
(***************************************************************************)
Users == {"u1"}
Ids == 1 .. MaxInvoices
\* Strings are sequences of characters.
AcmeName == <<"A", "c", "m", "e", " ", "&", " ", "C", "o", ".", " ", "L", "t", "d", "!", "!">>
Customers == {AcmeName}
AmountPool == {0, 700}
TaxPool == {Rat(10, 1)}

\* 2 x 10.50 = 21.00; 0.5 x 0.11 = 0.055 (5.5 cents, a rounding tie); 1 x 0 = 0.
Svc == [description |-> "svc", quantity |-> Rat(2, 1), rate |-> Rat(21, 2)]
Half == [description |-> "half", quantity |-> Rat(1, 2), rate |-> Rat(11, 100)]
Free == [description |-> "free", quantity |-> Rat(1, 1), rate |-> Rat(0, 1)]
ItemLists == { <<>>, <<Svc>>, <<Svc, Half>>, <<Free>> }

OptAmount == {Undefined} \cup { Num(a) : a \in AmountPool }
OptTax == {Undefined} \cup { Num(r) : r \in TaxPool }
OptItems == {Undefined} \cup { Arr(l) : l \in ItemLists }
OptCustomer == {Undefined} \cup { Str(c) : c \in Customers }

CreateBodies == [amount : OptAmount, customer : OptCustomer \ {Undefined}, items : OptItems, tax_rate : OptTax]
PatchBodies == [amount : OptAmount, customer : {Undefined}, items : OptItems, tax_rate : OptTax]
EmptyBody == [amount |-> Undefined, customer |-> Undefined, items |-> Undefined, tax_rate |-> Undefined]

(***************************************************************************)
(* The slug of a customer name, as the pdf and share routes compute it.    *)
(***************************************************************************)
UpperCase == <<"A", "B", "C", "D", "E", "F", "G", "H", "I", "J", "K", "L", "M",
               "N", "O", "P", "Q", "R", "S", "T", "U", "V", "W", "X", "Y", "Z">>
LowerCase == <<"a", "b", "c", "d", "e", "f", "g", "h", "i", "j", "k", "l", "m",
               "n", "o", "p", "q", "r", "s", "t", "u", "v", "w", "x", "y", "z">>
Digits == {"0", "1", "2", "3", "4", "5", "6", "7", "8", "9"}

\* s.toLowerCase()
ToLowerChar(c) ==
  IF \E i \in 1 .. 26 : UpperCase[i] = c
  THEN LowerCase[CHOOSE i \in 1 .. 26 : UpperCase[i] = c]
  ELSE c

ToLowerCase(s) == [i \in 1 .. Len(s) |-> ToLowerChar(s[i])]

\* [a-z0-9]
IsAlnum(c) == (\E i \in 1 .. 26 : LowerCase[i] = c) \/ c \in Digits

\* .replace(/[^a-z0-9]+/g, '-')
RECURSIVE ReplaceRuns(_, _)
ReplaceRuns(s, inRun) ==
  IF s = <<>> THEN <<>>
  ELSE IF IsAlnum(Head(s)) THEN <<Head(s)>> \o ReplaceRuns(Tail(s), FALSE)
  ELSE IF inRun THEN ReplaceRuns(Tail(s), TRUE)
  ELSE <<"-">> \o ReplaceRuns(Tail(s), TRUE)

\* Variant: every character outside [a-z0-9] becomes a hyphen of its own.
RECURSIVE ReplaceEach(_, _)
ReplaceEach(s, inRun) ==
  IF s = <<>> THEN <<>>
  ELSE IF IsAlnum(Head(s)) THEN <<Head(s)>> \o ReplaceEach(Tail(s), FALSE)
  ELSE <<"-">> \o ReplaceEach(Tail(s), TRUE)

\* .replace(/^-+|-+$/g, '')
RECURSIVE TrimLeft(_)
TrimLeft(s) == IF s # <<>> /\ Head(s) = "-" THEN TrimLeft(Tail(s)) ELSE s

RECURSIVE TrimRight(_)
TrimRight(s) == IF s # <<>> /\ s[Len(s)] = "-" THEN TrimRight(SubSeq(s, 1, Len(s) - 1)) ELSE s

TrimHyphens(s) == TrimRight(TrimLeft(s))

SlugMax == 50

\* .slice(0, n)
Slice(s, n) == SubSeq(s, 1, IF Len(s) < n THEN Len(s) ELSE n)

\* Variant: the slug built from single replacements instead of runs.
safeEach(s) == Slice(TrimHyphens(ReplaceEach(ToLowerCase(s), FALSE)), SlugMax)

safe(s) == Slice(TrimHyphens(ReplaceRuns(ToLowerCase(s), FALSE)), SlugMax)

(***************************************************************************)
(* Schema validation (zod) of the request bodies.                          *)
(***************************************************************************)
ItemSchema(it) ==
  /\ it.description # ""
  /\ RPos(it.quantity)
  /\ RNonNeg(it.rate)

AmountSchema(a) == IsDefined(a) => a.v > 0
TaxSchema(x) == IsDefined(x) => RNonNeg(x.v) /\ RLeq(x.v, Rat(100, 1))
ItemsSchema(x) == IsDefined(x) => \A i \in 1 .. Len(x.v) : ItemSchema(x.v[i])

CreateInvoiceSchema(body) ==
  /\ AmountSchema(body.amount)
  /\ IsDefined(body.customer)
  /\ ItemsSchema(body.items)
  /\ TaxSchema(body.tax_rate)

PatchSchema(body) ==
  /\ AmountSchema(body.amount)
  /\ ItemsSchema(body.items)
  /\ TaxSchema(body.tax_rate)
  /\ \E f \in DOMAIN body : IsDefined(body[f])

(***************************************************************************)
(* The amount computation of the create and patch handlers.                *)
(***************************************************************************)
RECURSIVE Reduce(_, _)
Reduce(items, sum) ==
  IF items = <<>> THEN sum
  ELSE Reduce(Tail(items), RAdd(sum, RMul(Head(items).quantity, Head(items).rate)))

Subtotal(items) == Reduce(items, Rat(0, 1))

\* Variant: subtotal and tax rounded to cents separately.
AmountCentsRoundedParts(items, taxRate) ==
  LET subtotal == Subtotal(items)
      tax == RMul(subtotal, RDiv(taxRate, Rat(100, 1)))
  IN  MathRound(RMul(subtotal, Rat(100, 1))) + MathRound(RMul(tax, Rat(100, 1)))


AmountCents(items, taxRate) ==
  LET subtotal == Subtotal(items)
      tax == RMul(subtotal, RDiv(taxRate, Rat(100, 1)))
  IN  MathRound(RMul(RAdd(subtotal, tax), Rat(100, 1)))

StripItems(items) ==
  [i \in 1 .. Len(items) |->
     [description |-> items[i].description, quantity |-> items[i].quantity, rate |-> items[i].rate]]

(***************************************************************************)
(* State: the invoices table; the last request handled as a whole, with    *)
(* its response and the table as it was before the request; the patch      *)
(* requests in flight, each between its awaits; the table as it was when   *)
(* the first of them started; the objects of the storage bucket            *)
(* 'invoices'; the last pdf or share request with what it did; and a       *)
(* customer name with its slug.                                            *)
(***************************************************************************)
VARIABLES invoices, last, inflight, base, blobs, art, slug,
          bucket, ensure, intents, wallet, ledger, conf, secret, pub

\* The bucket and the calls that provision it; the payment intents, the
\* wallet balance, the number of credit rows per intent and the confirm
\* requests in flight; the signing secret of the process and the last
\* request for a public link or a public view.
rest == <<bucket, ensure, intents, wallet, ledger, conf, secret, pub>>

vars == <<invoices, last, inflight, base, blobs, art, slug, rest>>

NoRow == [t |-> "norow"]
IsRow(r) == r.t = "row"

NoRequest == [op |-> "none", user |-> "u1", id |-> 0, body |-> EmptyBody, res |-> "none"]

Slots == {"a", "b"}
NoUpdate == [amount |-> Undefined, customer |-> Undefined, items |-> Undefined, tax_rate |-> Undefined]
Idle == [pc |-> "idle", req |-> NoRequest, updates |-> NoUpdate]

NoKey == [folder |-> "", name |-> <<>>]
NoArtifact ==
  [op |-> "none", user |-> "u1", id |-> 0, res |-> "none", key |-> NoKey,
   inv |-> NoRow, existed |-> FALSE, rendered |-> FALSE, uploaded |-> FALSE]
NoSlug == [s |-> <<>>, out |-> <<>>, done |-> FALSE]

MaxCallers == 2
Callers == 1 .. MaxCallers
NotCalled == [pc |-> "idle", how |-> "none", error |-> FALSE]

MaxIntents == 2
IntentIds == 1 .. MaxIntents
NoIntent == [t |-> "norow"]
NoConfirm == [pc |-> "idle", intent |-> 0, seen |-> 0, res |-> "none"]

\* process.env.PUBLIC_SHARE_SECRET
ShareSecret == Str(<<"k">>)
NoToken == [alg |-> "none", key |-> <<>>, msg |-> <<>>]
NoBody == [t |-> "none"]
NoPublic == [op |-> "none", user |-> "u1", id |-> 0, token |-> NoToken, res |-> "none", body |-> NoBody,
             inv |-> NoRow]

InitRest ==
  /\ bucket = FALSE
  /\ ensure = [c \in Callers |-> NotCalled]
  /\ intents = [k \in IntentIds |-> NoIntent]
  /\ wallet = 0
  /\ ledger = [k \in IntentIds |-> 0]
  /\ conf = [s \in Slots |-> NoConfirm]
  /\ pub = NoPublic

Init ==
  /\ invoices = [i \in Ids |-> NoRow]
  /\ last = [req |-> NoRequest, before |-> invoices]
  /\ inflight = [s \in Slots |-> Idle]
  /\ base = invoices
  /\ blobs = {}
  /\ art = NoArtifact
  /\ slug = NoSlug
  /\ InitRest
  /\ secret = ShareSecret

Request(op, user, id, body, res) == [op |-> op, user |-> user, id |-> id, body |-> body, res |-> res]

\* Timestamps count half days since the epoch.
Epoch == 0

HexDigits == <<"0", "1", "2", "3", "4", "5", "6", "7", "8", "9", "a", "b", "c", "d", "e", "f">>

\* id uuid primary key default gen_random_uuid(), as text
Uuid(id) ==
  [k \in 1 .. 36 |->
     IF k \in {9, 14, 19, 24} THEN "-"
     ELSE IF k \in {8, 36} THEN HexDigits[(id % 16) + 1]
     ELSE "0"]

\* A second uuid with the same first eight characters.
TwinUuid(id) == [Uuid(id) EXCEPT ![36] = HexDigits[((id + 1) % 16) + 1]]

\* id uuid primary key default gen_random_uuid(),
\* created_at timestamptz not null default now()
Inserted(payload, createdAt, uuid) == [id |-> uuid, created_at |-> createdAt] @@ payload

FreeIds == { i \in DOMAIN invoices : ~IsRow(invoices[i]) }
NewId == CHOOSE i \in FreeIds : \A j \in FreeIds : i <= j

(***************************************************************************)
(* POST /api/invoices.                                                     *)
(***************************************************************************)
\* parsed.data.items || []
CreateItems(body) == IF IsDefined(body.items) THEN body.items.v ELSE <<>>

\* parsed.data.tax_rate ?? 0
CreateTaxRate(body) == IF IsDefined(body.tax_rate) THEN body.tax_rate.v ELSE Rat(0, 1)

CreateAmount(body) ==
  IF Len(CreateItems(body)) > 0
  THEN Num(AmountCents(CreateItems(body), CreateTaxRate(body)))
  ELSE body.amount

\* Variant: only a missing amount is refused.
CreateAmountInvalidMissingOnly(amount) == ~IsDefined(amount)

\* !amount || amount <= 0
CreateAmountInvalid(amount) == ~IsDefined(amount) \/ amount.v = 0 \/ amount.v <= 0

\* Variant: the tax rate is stored whether or not there are items.
CreatePayloadKeepsTax(userId, body) ==
  [t |-> "row",
   user_id |-> userId,
   amount |-> CreateAmount(body).v,
   customer |-> body.customer.v,
   status |-> "pending",
   items |-> IF Len(CreateItems(body)) > 0 THEN Arr(StripItems(CreateItems(body))) ELSE Null,
   tax_rate |-> Num(CreateTaxRate(body))]


CreatePayload(userId, body) ==
  [t |-> "row",
   user_id |-> userId,
   amount |-> CreateAmount(body).v,
   customer |-> body.customer.v,
   status |-> "pending",
   items |-> IF Len(CreateItems(body)) > 0 THEN Arr(StripItems(CreateItems(body))) ELSE Null,
   tax_rate |-> IF Len(CreateItems(body)) > 0 THEN Num(CreateTaxRate(body)) ELSE Null]

CreateInvoice(userId, body, createdAt, uuid) ==
  IF ~CreateInvoiceSchema(body)
  THEN /\ invoices' = invoices
       /\ last' = [req |-> Request("create", userId, 0, body, "ValidationFailed"), before |-> invoices]
  ELSE IF CreateAmountInvalid(CreateAmount(body))
  THEN /\ invoices' = invoices
       /\ last' = [req |-> Request("create", userId, 0, body, "InvalidAmount"), before |-> invoices]
  ELSE /\ FreeIds # {}
       /\ invoices' = [invoices EXCEPT ![NewId] = Inserted(CreatePayload(userId, body), createdAt, uuid)]
       /\ last' = [req |-> Request("create", userId, NewId, body, "Created"), before |-> invoices]

(***************************************************************************)
(* POST /api/invoices/:id/pay.                                             *)
(***************************************************************************)
\* .eq('id', id).eq('user_id', userId)
Owned(userId, id) == id \in DOMAIN invoices /\ IsRow(invoices[id]) /\ invoices[id].user_id = userId

\* .single() on no matching row: the handlers answer 500 when the client
\* reports an error and 404 when it reports no data.
MissOutcomes == {"StorageUnavailable", "NotFound"}

\* Variant: only a pending invoice can be marked paid.
MarkPaidPendingOnly(userId, id) ==
  IF Owned(userId, id) /\ invoices[id].status = "pending"
  THEN /\ invoices' = [invoices EXCEPT ![id].status = "paid"]
       /\ last' = [req |-> Request("pay", userId, id, EmptyBody, "Ok"), before |-> invoices]
  ELSE /\ invoices' = invoices
       /\ \E r \in MissOutcomes :
            last' = [req |-> Request("pay", userId, id, EmptyBody, r), before |-> invoices]

\* Variant: paying a paid invoice reopens it.
MarkPaidToggle(userId, id) ==
  IF Owned(userId, id)
  THEN /\ invoices' = [invoices EXCEPT ![id].status = IF @ = "paid" THEN "pending" ELSE "paid"]
       /\ last' = [req |-> Request("pay", userId, id, EmptyBody, "Ok"), before |-> invoices]
  ELSE /\ invoices' = invoices
       /\ \E r \in MissOutcomes :
            last' = [req |-> Request("pay", userId, id, EmptyBody, r), before |-> invoices]

MarkPaid(userId, id) ==
  IF Owned(userId, id)
  THEN /\ invoices' = [invoices EXCEPT ![id].status = "paid"]
       /\ last' = [req |-> Request("pay", userId, id, EmptyBody, "Ok"), before |-> invoices]
  ELSE /\ invoices' = invoices
       /\ \E r \in MissOutcomes :
            last' = [req |-> Request("pay", userId, id, EmptyBody, r), before |-> invoices]

(***************************************************************************)
(* POST /api/crypto/mock/confirm, its last step: the invoice the intent    *)
(* names is marked paid, filtered by the caller; the result of the update  *)
(* is not looked at.                                                       *)
(***************************************************************************)
ConfirmInvoiceUpdate(userId, invoiceId) ==
  /\ invoices' = IF Owned(userId, invoiceId)
                 THEN [invoices EXCEPT ![invoiceId].status = "paid"]
                 ELSE invoices
  /\ last' = [req |-> Request("confirm", userId, invoiceId, EmptyBody, "Ok"), before |-> invoices]

(***************************************************************************)
(* PATCH /api/invoices/:id.                                                *)
(***************************************************************************)
\* x ?? d
Coalesce(x, d) == IF x.t \in {"undefined", "null"} THEN d ELSE x

\* Number(x || 0)
NumberOrZero(x) == IF x.t \in {"undefined", "null"} \/ RIsZero(x.v) THEN Rat(0, 1) ELSE x.v

ItemsChanged(body) == IsDefined(body.items)

UpdatesItems(body) ==
  IF IsDefined(body.items)
  THEN IF Len(body.items.v) > 0 THEN Arr(StripItems(body.items.v)) ELSE Null
  ELSE Undefined

\* Variant: a tax rate is stored only together with new non-empty items.
UpdatesTaxRateWithItemsOnly(body) ==
  IF IsDefined(body.tax_rate)
  THEN IF ItemsChanged(body) /\ IsArray(body.items) /\ Len(body.items.v) > 0
       THEN Coalesce(body.tax_rate, Num(Rat(0, 1)))
       ELSE Null
  ELSE Undefined

UpdatesTaxRate(body) ==
  IF IsDefined(body.tax_rate)
  THEN IF ItemsChanged(body)
       THEN IF IsArray(body.items) /\ Len(body.items.v) > 0
            THEN Coalesce(body.tax_rate, Num(Rat(0, 1)))
            ELSE Null
       ELSE body.tax_rate
  ELSE Undefined

EffectiveItems(existing, body) ==
  IF IsDefined(UpdatesItems(body)) THEN UpdatesItems(body) ELSE existing.items

EffectiveTax(existing, body) ==
  IF IsDefined(UpdatesTaxRate(body)) THEN UpdatesTaxRate(body) ELSE existing.tax_rate

\* Variant: the amount is recomputed only when the patch replaces the items.
PatchAmountCentsOnItemsChange(existing, body) ==
  IF ItemsChanged(body) /\ IsArray(EffectiveItems(existing, body))
  THEN Num(AmountCents(EffectiveItems(existing, body).v, NumberOrZero(EffectiveTax(existing, body))))
  ELSE IF IsDefined(body.amount) THEN body.amount
  ELSE Undefined

\* Variant: the tax is added on top of the stored amount.
PatchAmountCentsCompounding(existing, body) ==
  IF IsArray(EffectiveItems(existing, body)) /\ Len(EffectiveItems(existing, body).v) > 0
  THEN Num(existing.amount
           + MathRound(RMul(Rat(existing.amount, 1),
                            RDiv(NumberOrZero(EffectiveTax(existing, body)), Rat(100, 1)))))
  ELSE IF IsDefined(body.amount) THEN body.amount
  ELSE Undefined

\* Variant: an amount given in the patch wins over the recomputed total.
PatchAmountCentsBodyFirst(existing, body) ==
  IF IsDefined(body.amount) THEN body.amount
  ELSE IF IsArray(EffectiveItems(existing, body)) /\ Len(EffectiveItems(existing, body).v) > 0
  THEN Num(AmountCents(EffectiveItems(existing, body).v, NumberOrZero(EffectiveTax(existing, body))))
  ELSE Undefined


PatchAmountCents(existing, body) ==
  IF IsArray(EffectiveItems(existing, body)) /\ Len(EffectiveItems(existing, body).v) > 0
  THEN Num(AmountCents(EffectiveItems(existing, body).v, NumberOrZero(EffectiveTax(existing, body))))
  ELSE IF IsDefined(body.amount) THEN body.amount
  ELSE Undefined

\* Variant: only a negative amount is refused.
PatchAmountInvalidNegativeOnly(existing, body) ==
  /\ IsDefined(PatchAmountCents(existing, body))
  /\ ~(PatchAmountCents(existing, body).v >= 0)

\* !(amountCents > 0), tested only when amountCents is defined
PatchAmountInvalid(existing, body) ==
  /\ IsDefined(PatchAmountCents(existing, body))
  /\ ~(PatchAmountCents(existing, body).v > 0)

PatchUpdates(existing, body) ==
  [customer |-> body.customer,
   items |-> UpdatesItems(body),
   tax_rate |-> UpdatesTaxRate(body),
   amount |-> PatchAmountCents(existing, body)]

\* Object.keys(updates).length === 0
NoUpdates(updates) == \A f \in DOMAIN updates : ~IsDefined(updates[f])

\* Variant: the row is replaced, columns missing from updates are cleared.
UpdateRowReplace(row, updates) ==
  [row EXCEPT
     !.customer = IF IsDefined(updates.customer) THEN updates.customer.v ELSE @,
     !.items = IF IsDefined(updates.items) THEN updates.items ELSE Null,
     !.tax_rate = IF IsDefined(updates.tax_rate) THEN updates.tax_rate ELSE Null,
     !.amount = IF IsDefined(updates.amount) THEN updates.amount.v ELSE @]

\* .update(updates) of one row: only the columns named in updates change.
UpdateRow(row, updates) ==
  [row EXCEPT
     !.customer = IF IsDefined(updates.customer) THEN updates.customer.v ELSE @,
     !.items = IF IsDefined(updates.items) THEN updates.items ELSE @,
     !.tax_rate = IF IsDefined(updates.tax_rate) THEN updates.tax_rate ELSE @,
     !.amount = IF IsDefined(updates.amount) THEN updates.amount.v ELSE @]

PatchInvoice(userId, id, body) ==
  IF ~PatchSchema(body)
  THEN /\ invoices' = invoices
       /\ last' = [req |-> Request("patch", userId, id, body, "ValidationFailed"), before |-> invoices]
  ELSE IF ~Owned(userId, id)
  THEN /\ invoices' = invoices
       /\ \E r \in MissOutcomes :
            last' = [req |-> Request("patch", userId, id, body, r), before |-> invoices]
  ELSE IF PatchAmountInvalid(invoices[id], body)
  THEN /\ invoices' = invoices
       /\ last' = [req |-> Request("patch", userId, id, body, "InvalidAmount"), before |-> invoices]
  ELSE IF NoUpdates(PatchUpdates(invoices[id], body))
  THEN /\ invoices' = invoices
       /\ last' = [req |-> Request("patch", userId, id, body, "ValidationFailed"), before |-> invoices]
  ELSE /\ invoices' = [invoices EXCEPT ![id] = UpdateRow(@, PatchUpdates(invoices[id], body))]
       /\ last' = [req |-> Request("patch", userId, id, body, "Ok"), before |-> invoices]

(***************************************************************************)
(* Requests handled one at a time.                                         *)
(***************************************************************************)
Create ==
  /\ \E u \in Users, b \in CreateBodies : CreateInvoice(u, b, Epoch, Uuid(NewId))
  /\ UNCHANGED <<inflight, base, blobs, art, slug, rest>>

Patch ==
  /\ \E u \in Users, i \in Ids, b \in PatchBodies : PatchInvoice(u, i, b)
  /\ UNCHANGED <<inflight, base, blobs, art, slug, rest>>

Next == Create \/ Patch

Spec == Init /\ [][Next]_vars

(***************************************************************************)
(* Patch requests in flight together.  A handler runs from one await to    *)
(* the next without interruption: the first step ends with the select of   *)
(* the existing row answered and the updates computed from it (or with an  *)
(* error response), the second step is the update reaching the table.      *)
(***************************************************************************)
AllIdle == \A s \in Slots : inflight[s].pc = "idle"

PatchFetch(s, userId, id, body) ==
  /\ inflight[s].pc = "idle"
  /\ base' = IF AllIdle THEN invoices ELSE base
  /\ UNCHANGED <<invoices, last, blobs, art, slug, rest>>
  /\ IF ~PatchSchema(body)
     THEN inflight' = [inflight EXCEPT ![s] =
            [pc |-> "done", req |-> Request("patch", userId, id, body, "ValidationFailed"), updates |-> NoUpdate]]
     ELSE IF ~Owned(userId, id)
     THEN \E r \in MissOutcomes :
            inflight' = [inflight EXCEPT ![s] =
              [pc |-> "done", req |-> Request("patch", userId, id, body, r), updates |-> NoUpdate]]
     ELSE IF PatchAmountInvalid(invoices[id], body)
     THEN inflight' = [inflight EXCEPT ![s] =
            [pc |-> "done", req |-> Request("patch", userId, id, body, "InvalidAmount"), updates |-> NoUpdate]]
     ELSE IF NoUpdates(PatchUpdates(invoices[id], body))
     THEN inflight' = [inflight EXCEPT ![s] =
            [pc |-> "done", req |-> Request("patch", userId, id, body, "ValidationFailed"), updates |-> NoUpdate]]
     ELSE inflight' = [inflight EXCEPT ![s] =
            [pc |-> "update", req |-> Request("patch", userId, id, body, "none"),
             updates |-> PatchUpdates(invoices[id], body)]]

PatchUpdate(s) ==
  /\ inflight[s].pc = "update"
  /\ invoices' = [invoices EXCEPT ![inflight[s].req.id] = UpdateRow(@, inflight[s].updates)]
  /\ inflight' = [inflight EXCEPT ![s].pc = "done", ![s].req.res = "Ok"]
  /\ UNCHANGED <<last, base, blobs, art, slug, rest>>

\* Invoices are created before the concurrent patches start.
ConcCreate ==
  /\ AllIdle
  /\ \E u \in Users, b \in CreateBodies : CreateInvoice(u, b, Epoch, Uuid(NewId))
  /\ UNCHANGED <<inflight, base, blobs, art, slug, rest>>

ConcFetch == \E s \in Slots, u \in Users, i \in Ids, b \in PatchBodies : PatchFetch(s, u, i, b)
ConcUpdate == \E s \in Slots : PatchUpdate(s)

NextConc == ConcCreate \/ ConcFetch \/ ConcUpdate

SpecConc == Init /\ [][NextConc]_vars

(***************************************************************************)
(* The life of an invoice: create, patch, pay and the payment confirmation *)
(* of two callers, handled one at a time.                                  *)
(***************************************************************************)
ZedName == <<"Z", "e", "d">>
Owners == {"u1", "u2"}

LifeCreateBodies ==
  { [EmptyBody EXCEPT !.customer = Str(AcmeName), !.items = Arr(<<Svc>>)],
    [EmptyBody EXCEPT !.customer = Str(AcmeName), !.amount = Num(700)] }

LifePatchBodies ==
  [amount : {Undefined, Num(700)}, customer : {Undefined, Str(ZedName)},
   items : {Undefined}, tax_rate : {Undefined, Num(Rat(10, 1))}]

LifeCreate ==
  /\ \E u \in Owners, b \in LifeCreateBodies : CreateInvoice(u, b, Epoch, Uuid(NewId))
  /\ UNCHANGED <<inflight, base, blobs, art, slug, rest>>

LifePatch ==
  /\ \E u \in Owners, i \in Ids, b \in LifePatchBodies : PatchInvoice(u, i, b)
  /\ UNCHANGED <<inflight, base, blobs, art, slug, rest>>

LifePay ==
  /\ \E u \in Owners, i \in Ids : MarkPaid(u, i)
  /\ UNCHANGED <<inflight, base, blobs, art, slug, rest>>

LifeConfirm ==
  /\ \E u \in Owners, i \in Ids : ConfirmInvoiceUpdate(u, i)
  /\ UNCHANGED <<inflight, base, blobs, art, slug, rest>>

NextLife == LifeCreate \/ LifePatch \/ LifePay \/ LifeConfirm

SpecLife == Init /\ [][NextLife]_vars

(***************************************************************************)
(* GET /api/invoices/:id/pdf and GET /api/invoices/:id/share, with the     *)
(* bucket 'invoices' of the object storage.                                *)
(***************************************************************************)
\* new Date(created_at).toISOString().slice(0, 10): the UTC day
ToISODate(createdAt) == createdAt \div 2

IdChars == 8

\* `${userId}/invoice-${safe(customer)}-${date}-${String(id).slice(0,8)}.pdf`:
\* the date has ten characters and the id part eight, so the path is
\* determined by, and determines, the folder and the three parts of the name.
PdfStoragePath(userId, inv) ==
  [folder |-> userId,
   name |-> <<"invoice", safe(inv.customer), ToISODate(inv.created_at), Slice(inv.id, IdChars)>>]

\* Variant: the share route names the object by the whole id.
ShareStoragePathWholeId(userId, inv) ==
  [folder |-> userId,
   name |-> <<"invoice", safe(inv.customer), ToISODate(inv.created_at), inv.id>>]

ShareStoragePath(userId, inv) ==
  [folder |-> userId,
   name |-> <<"invoice", safe(inv.customer), ToISODate(inv.created_at), Slice(inv.id, IdChars)>>]

\* The document of the pdf route shows the whole invoice, the document of
\* the share route its customer, amount, status and date.
RenderFull(inv) == [doc |-> "full", inv |-> inv]
RenderMinimal(inv) ==
  [doc |-> "minimal",
   inv |-> [customer |-> inv.customer, amount |-> inv.amount,
            status |-> inv.status, created_at |-> inv.created_at]]

\* storage.from('invoices').list(userId, { search: filename })
Exists(key) == \E b \in blobs : b.key = key

\* storage.from('invoices').upload(path, bytes, { upsert: true })
Upload(key, bytes, ok) ==
  IF ok THEN { b \in blobs : b.key # key } \cup {[key |-> key, bytes |-> bytes]}
  ELSE blobs

Artifact(op, userId, id, res, key, rendered, uploaded) ==
  [op |-> op, user |-> userId, id |-> id, res |-> res, key |-> key,
   inv |-> IF Owned(userId, id) THEN invoices[id] ELSE NoRow,
   existed |-> Exists(key), rendered |-> rendered, uploaded |-> uploaded]

\* Variant: the chunks produced so far are uploaded when the rendering fails.
PdfInvoiceUploadsPartial(userId, id, renderOk, uploadOk) ==
  /\ UNCHANGED <<invoices, last>>
  /\ IF ~Owned(userId, id)
     THEN /\ blobs' = blobs
          /\ \E r \in MissOutcomes : art' = Artifact("pdf", userId, id, r, NoKey, FALSE, FALSE)
     ELSE /\ blobs' = Upload(PdfStoragePath(userId, invoices[id]),
                            IF renderOk THEN RenderFull(invoices[id]) ELSE [doc |-> "partial", inv |-> NoRow],
                            uploadOk)
          /\ art' = Artifact("pdf", userId, id, IF renderOk THEN "Ok" ELSE "RenderFailed",
                             PdfStoragePath(userId, invoices[id]), renderOk, uploadOk)

\* The pdf is rendered and uploaded on every request; the buffer is complete
\* (the document has ended) before the upload; a rendering that throws or
\* reports an error ends the request in the catch; the result of the upload
\* is not looked at.
PdfInvoice(userId, id, renderOk, uploadOk) ==
  /\ UNCHANGED <<invoices, last>>
  /\ IF ~Owned(userId, id)
     THEN /\ blobs' = blobs
          /\ \E r \in MissOutcomes : art' = Artifact("pdf", userId, id, r, NoKey, FALSE, FALSE)
     ELSE IF ~renderOk
     THEN /\ blobs' = blobs
          /\ art' = Artifact("pdf", userId, id, "RenderFailed", PdfStoragePath(userId, invoices[id]), FALSE, FALSE)
     ELSE /\ blobs' = Upload(PdfStoragePath(userId, invoices[id]), RenderFull(invoices[id]), uploadOk)
          /\ art' = Artifact("pdf", userId, id, "Ok", PdfStoragePath(userId, invoices[id]), TRUE, uploadOk)

SignOutcomes == {"Ok", "StorageUnavailable"}

\* The share route renders and uploads when the list finds no object of
\* that name or fails (its error is not looked at, its data is then null);
\* the result of the upload is not looked at; then the path is signed, and
\* the response is the signed URL unless the signing reports an error.  A
\* rendering that fails ends the request in the catch, before the upload.
ShareInvoice(userId, id, listOk, renderOk, uploadOk, signed) ==
  /\ UNCHANGED <<invoices, last>>
  /\ IF ~Owned(userId, id)
     THEN /\ blobs' = blobs
          /\ \E r \in MissOutcomes : art' = Artifact("share", userId, id, r, NoKey, FALSE, FALSE)
     ELSE IF listOk /\ Exists(ShareStoragePath(userId, invoices[id]))
     THEN /\ blobs' = blobs
          /\ art' = Artifact("share", userId, id, signed, ShareStoragePath(userId, invoices[id]), FALSE, FALSE)
     ELSE IF ~renderOk
     THEN /\ blobs' = blobs
          /\ art' = Artifact("share", userId, id, "RenderFailed", ShareStoragePath(userId, invoices[id]), FALSE, FALSE)
     ELSE /\ blobs' = Upload(ShareStoragePath(userId, invoices[id]), RenderMinimal(invoices[id]), uploadOk)
          /\ art' = Artifact("share", userId, id, signed, ShareStoragePath(userId, invoices[id]), TRUE, uploadOk)

Timestamps == {1, 2, 3}
ArtCreateBodies == { [EmptyBody EXCEPT !.customer = Str(AcmeName), !.amount = Num(700)] }
ArtPatchBodies ==
  { [EmptyBody EXCEPT !.customer = Str(ZedName)],
    [EmptyBody EXCEPT !.amount = Num(900)] }

ArtCreate ==
  /\ \E u \in Users, b \in ArtCreateBodies, ts \in Timestamps : CreateInvoice(u, b, ts, Uuid(NewId))
  /\ UNCHANGED <<inflight, base, blobs, art, slug, rest>>

ArtPatch ==
  /\ \E u \in Users, i \in Ids, b \in ArtPatchBodies : PatchInvoice(u, i, b)
  /\ UNCHANGED <<inflight, base, blobs, art, slug, rest>>

ArtPay ==
  /\ \E u \in Users, i \in Ids : MarkPaid(u, i)
  /\ UNCHANGED <<inflight, base, blobs, art, slug, rest>>

Pdf ==
  /\ \E u \in Users, i \in Ids, rn \in BOOLEAN, ok \in BOOLEAN : PdfInvoice(u, i, rn, ok)
  /\ UNCHANGED <<inflight, base, slug, rest>>

Share ==
  /\ \E u \in Users, i \in Ids, ls \in BOOLEAN, rn \in BOOLEAN, ok \in BOOLEAN, sg \in SignOutcomes :
       ShareInvoice(u, i, ls, rn, ok, sg)
  /\ UNCHANGED <<inflight, base, slug, rest>>

NextArt == ArtCreate \/ ArtPatch \/ ArtPay \/ Pdf \/ Share

SpecArt == Init /\ [][NextArt]_vars

\* The key and the rendering of the artifact, with a storage that answers
\* every list and accepts every upload.
KeyCreate ==
  /\ \E u \in Users, b \in ArtCreateBodies, ts \in Timestamps : CreateInvoice(u, b, ts, Uuid(NewId))
  /\ UNCHANGED <<inflight, base, blobs, art, slug, rest>>

KeyPatch ==
  /\ \E u \in Users, i \in Ids : PatchInvoice(u, i, [EmptyBody EXCEPT !.customer = Str(ZedName)])
  /\ UNCHANGED <<inflight, base, blobs, art, slug, rest>>

KeyPdf ==
  /\ \E u \in Users, i \in Ids, rn \in BOOLEAN : PdfInvoice(u, i, rn, TRUE)
  /\ UNCHANGED <<inflight, base, slug, rest>>

KeyShare ==
  /\ \E u \in Users, i \in Ids, rn \in BOOLEAN, sg \in SignOutcomes : ShareInvoice(u, i, TRUE, rn, TRUE, sg)
  /\ UNCHANGED <<inflight, base, slug, rest>>

NextKey == KeyCreate \/ KeyPatch \/ KeyPdf \/ KeyShare

SpecKey == Init /\ [][NextKey]_vars

(***************************************************************************)
(* Two invoices whose uuids agree on the first eight characters: the       *)
(* database draws the id at random (gen_random_uuid), so any two values    *)
(* may be drawn.                                                           *)
(***************************************************************************)
PairIds == 1 .. (MaxInvoices + 1)
TwinUuids == {Uuid(1), TwinUuid(1)}
UsedUuids == { invoices[i].id : i \in { j \in DOMAIN invoices : IsRow(invoices[j]) } }

InitCollide ==
  /\ invoices = [i \in PairIds |-> NoRow]
  /\ last = [req |-> NoRequest, before |-> invoices]
  /\ inflight = [s \in Slots |-> Idle]
  /\ base = invoices
  /\ blobs = {}
  /\ art = NoArtifact
  /\ slug = NoSlug
  /\ InitRest
  /\ secret = ShareSecret

CollideCreate ==
  /\ \E u \in Users, b \in ArtCreateBodies, ts \in Timestamps, uuid \in TwinUuids \ UsedUuids :
       CreateInvoice(u, b, ts, uuid)
  /\ UNCHANGED <<inflight, base, blobs, art, slug, rest>>

CollidePdf ==
  /\ \E u \in Users, i \in PairIds : PdfInvoice(u, i, TRUE, TRUE)
  /\ UNCHANGED <<inflight, base, slug, rest>>

CollideShare ==
  /\ \E u \in Users, i \in PairIds, sg \in SignOutcomes : ShareInvoice(u, i, TRUE, TRUE, TRUE, sg)
  /\ UNCHANGED <<inflight, base, slug, rest>>

NextCollide == CollideCreate \/ CollidePdf \/ CollideShare

SpecCollide == InitCollide /\ [][NextCollide]_vars

(***************************************************************************)
(* GET /api/invoices/:id/public-url and GET /api/public/invoices/:id, the  *)
(* public link of an invoice and the read-only view behind it.             *)
(***************************************************************************)
\* String(inv.user_id)
UserText(userId) == IF userId = "u1" THEN <<"u", "1">> ELSE <<"u", "2">>

\* `${userId}:${invoiceId}`
TokenMessage(userId, invoiceId) == UserText(userId) \o <<":">> \o invoiceId

\* createHmac('sha256', key).update(msg).digest('hex'): two digests are
\* equal exactly when key and message are.
Hmac(key, msg) == [alg |-> "sha256", key |-> key, msg |-> msg]

\* if (!s) throw new Error('PUBLIC_SHARE_SECRET is not set')
SecretSet == secret.t = "string" /\ secret.v # <<>>

makePublicToken(userId, invoiceId) == Hmac(secret.v, TokenMessage(userId, invoiceId))
makeToken(userId, invoiceId) == Hmac(secret.v, TokenMessage(userId, invoiceId))

\* The fields of the row that the public view returns.
PublicBody(inv) ==
  [id |-> inv.id, created_at |-> inv.created_at, status |-> inv.status, amount |-> inv.amount,
   customer |-> inv.customer, items |-> inv.items, tax_rate |-> inv.tax_rate]

Public(op, userId, id, token, res, body) ==
  [op |-> op, user |-> userId, id |-> id, token |-> token, res |-> res, body |-> body,
   inv |-> IF id \in DOMAIN invoices THEN invoices[id] ELSE NoRow]

\* The owner asks for the link; the secret is read when the token is made,
\* after the row was found, and its absence ends the request in the catch.
PublicUrl(userId, id) ==
  /\ UNCHANGED <<invoices, last>>
  /\ IF ~Owned(userId, id)
     THEN \E r \in MissOutcomes : pub' = Public("url", userId, id, NoToken, r, NoBody)
     ELSE IF ~SecretSet
     THEN pub' = Public("url", userId, id, NoToken, "SecretNotSet", NoBody)
     ELSE pub' = Public("url", userId, id,
                        makePublicToken(invoices[id].user_id, invoices[id].id), "Ok", NoBody)

\* Variant: the view is returned for any token that is present.
PublicInvoiceAnyToken(id, token) ==
  /\ UNCHANGED <<invoices, last>>
  /\ IF token = NoToken
     THEN pub' = Public("view", "u1", id, token, "BadRequest", NoBody)
     ELSE IF ~(id \in DOMAIN invoices /\ IsRow(invoices[id]))
     THEN \E r \in MissOutcomes : pub' = Public("view", "u1", id, token, r, NoBody)
     ELSE IF ~SecretSet
     THEN pub' = Public("view", "u1", id, token, "SecretNotSet", NoBody)
     ELSE pub' = Public("view", "u1", id, token, "Ok", PublicBody(invoices[id]))

\* Anyone asks for the view with a token: 400 without a token, then the row
\* is read by id alone, then the expected token is made (which reads the
\* secret) and compared with the supplied one.
PublicInvoice(id, token) ==
  /\ UNCHANGED <<invoices, last>>
  /\ IF token = NoToken
     THEN pub' = Public("view", "u1", id, token, "BadRequest", NoBody)
     ELSE IF ~(id \in DOMAIN invoices /\ IsRow(invoices[id]))
     THEN \E r \in MissOutcomes : pub' = Public("view", "u1", id, token, r, NoBody)
     ELSE IF ~SecretSet
     THEN pub' = Public("view", "u1", id, token, "SecretNotSet", NoBody)
     ELSE IF token # makeToken(invoices[id].user_id, invoices[id].id)
     THEN pub' = Public("view", "u1", id, token, "Forbidden", NoBody)
     ELSE pub' = Public("view", "u1", id, token, "Ok", PublicBody(invoices[id]))

\* The environment of the process: the variable unset, empty, or set.
Secrets == {Undefined, Str(<<>>), ShareSecret}
ForgedKey == <<"x">>

\* Tokens a caller may present: none, the tokens of every owner and id under
\* the secret, and the same under a key that is not the secret.
TokenPool ==
  {NoToken}
    \cup { Hmac(k, TokenMessage(u, Uuid(i))) : k \in {ShareSecret.v, ForgedKey}, u \in Owners, i \in PairIds }

InitPublic ==
  /\ invoices = [i \in PairIds |-> NoRow]
  /\ last = [req |-> NoRequest, before |-> invoices]
  /\ inflight = [s \in Slots |-> Idle]
  /\ base = invoices
  /\ blobs = {}
  /\ art = NoArtifact
  /\ slug = NoSlug
  /\ InitRest
  /\ secret \in Secrets

PublicCreate ==
  /\ \E u \in Owners, b \in ArtCreateBodies : CreateInvoice(u, b, Epoch, Uuid(NewId))
  /\ UNCHANGED <<inflight, base, blobs, art, slug, rest>>

PublicLink ==
  /\ \E u \in Owners, i \in PairIds : PublicUrl(u, i)
  /\ UNCHANGED <<inflight, base, blobs, art, slug, bucket, ensure, intents, wallet, ledger, conf, secret>>

PublicView ==
  /\ \E i \in PairIds, t \in TokenPool : PublicInvoice(i, t)
  /\ UNCHANGED <<inflight, base, blobs, art, slug, bucket, ensure, intents, wallet, ledger, conf, secret>>

NextPublic == PublicCreate \/ PublicLink \/ PublicView

SpecPublic == InitPublic /\ [][NextPublic]_vars

(***************************************************************************)
(* The slug as a function of the customer name: names of up to MaxLen      *)
(* characters, alone and after a run of letters that brings the slug to    *)
(* the length where it is cut.                                             *)
(***************************************************************************)
MaxLen == 4
Alphabet == {"A", "b", "7", "&", "-"}
PadLen == SlugMax - 3

RECURSIVE Strings(_)
Strings(n) ==
  IF n = 0 THEN {<<>>}
  ELSE Strings(n - 1) \cup { Append(s, c) : s \in { t \in Strings(n - 1) : Len(t) = n - 1 }, c \in Alphabet }

Pad == [k \in 1 .. PadLen |-> "x"]
SlugInputs == Strings(MaxLen) \cup { Pad \o s : s \in Strings(MaxLen) } \cup {AcmeName}

InitSlug ==
  /\ invoices = [i \in Ids |-> NoRow]
  /\ last = [req |-> NoRequest, before |-> invoices]
  /\ inflight = [s \in Slots |-> Idle]
  /\ base = invoices
  /\ blobs = {}
  /\ art = NoArtifact
  /\ slug \in { [s |-> s, out |-> <<>>, done |-> FALSE] : s \in SlugInputs }
  /\ InitRest
  /\ secret = ShareSecret

ApplySafe ==
  /\ ~slug.done
  /\ slug' = [s |-> slug.s, out |-> safe(slug.s), done |-> TRUE]
  /\ UNCHANGED <<invoices, last, inflight, base, blobs, art, rest>>

NextSlug == ApplySafe

SpecSlug == InitSlug /\ [][NextSlug]_vars

(***************************************************************************)
(* ensureInvoiceBucket, called by requests that run together: the list of  *)
(* the buckets, then the creation if 'invoices' is not in the list, all    *)
(* inside a try whose catch is empty; the results of the two calls other   *)
(* than the list's data are not looked at.                                 *)
(***************************************************************************)
CallOutcomes == {"ok", "error", "throw"}

EnsureList(c, outcome) ==
  /\ ensure[c].pc = "idle"
  /\ UNCHANGED bucket
  /\ ensure' = [ensure EXCEPT ![c] =
       IF outcome = "throw" THEN [pc |-> "done", how |-> "caught", error |-> FALSE]
       ELSE IF outcome = "ok" /\ bucket THEN [pc |-> "done", how |-> "found", error |-> FALSE]
       ELSE [pc |-> "create", how |-> @.how, error |-> FALSE]]

\* Variant: the error of createBucket is thrown to the request.
EnsureCreateChecked(c, outcome) ==
  /\ ensure[c].pc = "create"
  /\ outcome = "ok" => ~bucket
  /\ bucket' = (bucket \/ outcome = "ok")
  /\ ensure' = [ensure EXCEPT ![c] =
       [pc |-> "done",
        how |-> IF outcome = "ok" THEN "created"
                ELSE IF outcome = "throw" THEN "caught"
                ELSE IF bucket THEN "refused" ELSE "failed",
        error |-> outcome = "error"]]

\* createBucket on an existing bucket is refused by the storage.
EnsureCreate(c, outcome) ==
  /\ ensure[c].pc = "create"
  /\ outcome = "ok" => ~bucket
  /\ bucket' = (bucket \/ outcome = "ok")
  /\ ensure' = [ensure EXCEPT ![c] =
       [pc |-> "done",
        how |-> IF outcome = "ok" THEN "created"
                ELSE IF outcome = "throw" THEN "caught"
                ELSE IF bucket THEN "refused" ELSE "failed",
        error |-> FALSE]]

\* The call has returned to its request; the request may call again.
EnsureReturn(c) ==
  /\ ensure[c].pc = "done"
  /\ UNCHANGED bucket
  /\ ensure' = [ensure EXCEPT ![c].pc = "idle"]

BucketList ==
  /\ \E c \in Callers, o \in CallOutcomes : EnsureList(c, o)
  /\ UNCHANGED <<invoices, last, inflight, base, blobs, art, slug, intents, wallet, ledger, conf, secret, pub>>

BucketCreate ==
  /\ \E c \in Callers, o \in CallOutcomes : EnsureCreate(c, o)
  /\ UNCHANGED <<invoices, last, inflight, base, blobs, art, slug, intents, wallet, ledger, conf, secret, pub>>

BucketReturn ==
  /\ \E c \in Callers : EnsureReturn(c)
  /\ UNCHANGED <<invoices, last, inflight, base, blobs, art, slug, intents, wallet, ledger, conf, secret, pub>>

NextBucket == BucketList \/ BucketCreate \/ BucketReturn

SpecBucket == Init /\ [][NextBucket]_vars

(***************************************************************************)
(* Payment intents and the wallet: POST /api/crypto/intents and            *)
(* POST /api/crypto/mock/confirm.  A confirm request runs from one await   *)
(* to the next without interruption: the select of the intent, the read of *)
(* the wallet, the insert of the credit row, the increment of the balance, *)
(* the update of the intent, the update of the invoice.  `wallet` is the   *)
(* balance_cents of the caller's USD wallet (created with 0 on first use), *)
(* `ledger[k]` the number of credit rows with reference intent:k, each of  *)
(* the amount of intent k.                                                 *)
(***************************************************************************)
IntentAmounts == {0, 300, 500}
MaxCredits == 2

FreeIntentIds == { k \in IntentIds : intents[k] = NoIntent }

\* The intents of this model name no invoice (invoice_id null, written 0).
CreateIntent(userId, amountCents) ==
  /\ UNCHANGED <<wallet, ledger, conf>>
  /\ IF amountCents = 0 \/ amountCents <= 0
     THEN intents' = intents
     ELSE /\ FreeIntentIds # {}
          /\ intents' = [intents EXCEPT ![CHOOSE k \in FreeIntentIds : \A j \in FreeIntentIds : k <= j] =
               [t |-> "row", user_id |-> userId, amount_cents |-> amountCents,
                status |-> "pending", invoice_id |-> 0]]

Finished(s, res) == [conf EXCEPT ![s].pc = "done", ![s].res = res]

IntentOwned(userId, k) == k \in IntentIds /\ intents[k] # NoIntent /\ intents[k].user_id = userId

ConfirmLoad(s, userId, k) ==
  /\ conf[s].pc = "idle"
  /\ UNCHANGED <<intents, wallet, ledger, invoices, last>>
  /\ IF ~IntentOwned(userId, k)
     THEN \E r \in MissOutcomes : conf' = [conf EXCEPT ![s] = [pc |-> "done", intent |-> k, seen |-> 0, res |-> r]]
     ELSE IF intents[k].status = "confirmed"
     THEN conf' = [conf EXCEPT ![s] = [pc |-> "done", intent |-> k, seen |-> 0, res |-> "Ok"]]
     ELSE conf' = [conf EXCEPT ![s] = [pc |-> "wallet", intent |-> k, seen |-> 0, res |-> "none"]]

\* ensureUsdWallet: select('id, balance_cents')
ConfirmWallet(s, ok) ==
  /\ conf[s].pc = "wallet"
  /\ UNCHANGED <<intents, wallet, ledger, invoices, last>>
  /\ conf' = IF ok THEN [conf EXCEPT ![s].pc = "insert", ![s].seen = wallet]
             ELSE Finished(s, "StorageUnavailable")

ConfirmInsert(s, ok) ==
  /\ conf[s].pc = "insert"
  /\ UNCHANGED <<intents, wallet, invoices, last>>
  /\ ledger' = IF ok THEN [ledger EXCEPT ![conf[s].intent] = @ + 1] ELSE ledger
  /\ conf' = IF ok THEN [conf EXCEPT ![s].pc = "increment"] ELSE Finished(s, "StorageUnavailable")

\* Variant: the balance is written from the value the request has read.
ConfirmIncrementFromRead(s, ok) ==
  /\ conf[s].pc = "increment"
  /\ UNCHANGED <<intents, ledger, invoices, last>>
  /\ wallet' = IF ok THEN conf[s].seen + intents[conf[s].intent].amount_cents ELSE wallet
  /\ conf' = IF ok THEN [conf EXCEPT ![s].pc = "update"] ELSE Finished(s, "StorageUnavailable")

\* rpc('increment_wallet_balance'): set balance_cents = balance_cents + p_amount
ConfirmIncrement(s, ok) ==
  /\ conf[s].pc = "increment"
  /\ UNCHANGED <<intents, ledger, invoices, last>>
  /\ wallet' = IF ok THEN wallet + intents[conf[s].intent].amount_cents ELSE wallet
  /\ conf' = IF ok THEN [conf EXCEPT ![s].pc = "update"] ELSE Finished(s, "StorageUnavailable")

ConfirmUpdateIntent(s, ok) ==
  /\ conf[s].pc = "update"
  /\ UNCHANGED <<wallet, ledger, invoices, last>>
  /\ intents' = IF ok THEN [intents EXCEPT ![conf[s].intent].status = "confirmed"] ELSE intents
  /\ conf' = IF ok THEN [conf EXCEPT ![s].pc = "invoice"] ELSE Finished(s, "StorageUnavailable")

ConfirmInvoice(s) ==
  /\ conf[s].pc = "invoice"
  /\ UNCHANGED <<intents, wallet, ledger>>
  /\ IF intents[conf[s].intent].invoice_id # 0
     THEN ConfirmInvoiceUpdate(intents[conf[s].intent].user_id, intents[conf[s].intent].invoice_id)
     ELSE UNCHANGED <<invoices, last>>
  /\ conf' = Finished(s, "Ok")

\* The response is sent; the slot takes the next request.
ConfirmReturn(s) ==
  /\ conf[s].pc = "done"
  /\ UNCHANGED <<intents, wallet, ledger, invoices, last>>
  /\ conf' = [conf EXCEPT ![s].pc = "idle"]

InFlight(s) == conf[s].pc \notin {"idle", "done"}
NoConfirmInFlight == \A s \in Slots : ~InFlight(s)

\* Confirm requests for distinct intents, with a storage that does not fail.
CreditIntent ==
  /\ \E u \in Users, a \in IntentAmounts : CreateIntent(u, a)
  /\ UNCHANGED <<invoices, last, inflight, base, blobs, art, slug, bucket, ensure, secret, pub>>

CreditLoad ==
  /\ \E s \in Slots, u \in Users, k \in IntentIds :
       /\ \A t \in Slots : InFlight(t) => conf[t].intent # k
       /\ ConfirmLoad(s, u, k)
  /\ UNCHANGED <<inflight, base, blobs, art, slug, bucket, ensure, secret, pub>>

CreditWallet ==
  /\ \E s \in Slots : ConfirmWallet(s, TRUE)
  /\ UNCHANGED <<inflight, base, blobs, art, slug, bucket, ensure, secret, pub>>

CreditInsert ==
  /\ \E s \in Slots : ConfirmInsert(s, TRUE)
  /\ UNCHANGED <<inflight, base, blobs, art, slug, bucket, ensure, secret, pub>>

CreditIncrement ==
  /\ \E s \in Slots : ConfirmIncrement(s, TRUE)
  /\ UNCHANGED <<inflight, base, blobs, art, slug, bucket, ensure, secret, pub>>

CreditUpdateIntent ==
  /\ \E s \in Slots : ConfirmUpdateIntent(s, TRUE)
  /\ UNCHANGED <<inflight, base, blobs, art, slug, bucket, ensure, secret, pub>>

CreditInvoice ==
  /\ \E s \in Slots : ConfirmInvoice(s)
  /\ UNCHANGED <<inflight, base, blobs, art, slug, bucket, ensure, secret, pub>>

CreditReturn ==
  /\ \E s \in Slots : ConfirmReturn(s)
  /\ UNCHANGED <<inflight, base, blobs, art, slug, bucket, ensure, secret, pub>>

NextCredit ==
  \/ CreditIntent \/ CreditLoad \/ CreditWallet \/ CreditInsert
  \/ CreditIncrement \/ CreditUpdateIntent \/ CreditInvoice \/ CreditReturn

SpecCredit == Init /\ [][NextCredit]_vars

\* Confirm requests for any intents, with a storage whose calls can fail;
\* an intent is credited at most MaxCredits times.
AnyLoad ==
  /\ \E s \in Slots, u \in Users, k \in IntentIds : ConfirmLoad(s, u, k)
  /\ UNCHANGED <<inflight, base, blobs, art, slug, bucket, ensure, secret, pub>>

AnyWallet ==
  /\ \E s \in Slots, ok \in BOOLEAN : ConfirmWallet(s, ok)
  /\ UNCHANGED <<inflight, base, blobs, art, slug, bucket, ensure, secret, pub>>

AnyInsert ==
  /\ \E s \in Slots, ok \in BOOLEAN :
       /\ conf[s].pc = "insert"
       /\ ok => ledger[conf[s].intent] < MaxCredits
       /\ ConfirmInsert(s, ok)
  /\ UNCHANGED <<inflight, base, blobs, art, slug, bucket, ensure, secret, pub>>

AnyIncrement ==
  /\ \E s \in Slots, ok \in BOOLEAN : ConfirmIncrement(s, ok)
  /\ UNCHANGED <<inflight, base, blobs, art, slug, bucket, ensure, secret, pub>>

AnyUpdateIntent ==
  /\ \E s \in Slots, ok \in BOOLEAN : ConfirmUpdateIntent(s, ok)
  /\ UNCHANGED <<inflight, base, blobs, art, slug, bucket, ensure, secret, pub>>

NextConfirm ==
  \/ CreditIntent \/ AnyLoad \/ AnyWallet \/ AnyInsert
  \/ AnyIncrement \/ AnyUpdateIntent \/ CreditInvoice \/ CreditReturn

SpecConfirm == Init /\ [][NextConfirm]_vars

(***************************************************************************)
(* Vocabulary of the properties.                                           *)
(***************************************************************************)
Req == last.req
After == invoices[Req.id]
Before == last.before[Req.id]
Succeeded == Req.res \in {"Created", "Ok"}

HasItems(row) == IsArray(row.items) /\ Len(row.items.v) > 0
BodyHasItems(body) == IsDefined(body.items) /\ Len(body.items.v) > 0
BodyNoItems(body) == ~IsDefined(body.items) \/ Len(body.items.v) = 0
TaxOrZero(x) == IF x.t = "number" THEN x.v ELSE Rat(0, 1)

\* round((sum of quantity * rate) * (1 + t/100) * 100), half-up, rounded once.
SumQtyRate(items) ==
  LET RECURSIVE Upto(_)
      Upto(k) == IF k = 0 THEN Rat(0, 1)
                 ELSE RAdd(Upto(k - 1), RMul(items[k].quantity, items[k].rate))
  IN  Upto(Len(items))

HalfUp(x) == CHOOSE k \in 0 .. (x[1] \div x[2]) + 1 : 2 * k * x[2] - x[2] <= 2 * x[1] /\ 2 * x[1] < 2 * k * x[2] + x[2]

TotalMinorUnits(items, t) ==
  HalfUp(RMul(RMul(SumQtyRate(items), RAdd(Rat(1, 1), RDiv(t, Rat(100, 1)))), Rat(100, 1)))

\* Effective items and tax rate of a patch: the patch value if provided,
\* else the existing value.
PatchItems == IF IsDefined(Req.body.items) THEN Req.body.items.v
              ELSE IF HasItems(Before) THEN Before.items.v ELSE <<>>
PatchTax == IF IsDefined(Req.body.tax_rate) THEN Req.body.tax_rate.v ELSE TaxOrZero(Before.tax_rate)
PatchResolvedAmount ==
  IF PatchItems # <<>> THEN TotalMinorUnits(PatchItems, PatchTax)
  ELSE IF IsDefined(Req.body.amount) THEN Req.body.amount.v
  ELSE Before.amount
PatchReachedRow == Req.op = "patch" /\ Req.res \in {"Ok", "InvalidAmount"}

(***************************************************************************)
(* C1: after any sequence of create and patch requests handled one at a    *)
(* time, every stored invoice with non-empty items has amount equal to the *)
(* total computed from its stored items and stored tax_rate (absent = 0).  *)
(***************************************************************************)
C1_AmountMatchesItems ==
  \A i \in Ids :
    IsRow(invoices[i]) /\ HasItems(invoices[i]) =>
      invoices[i].amount = AmountCents(invoices[i].items.v, TaxOrZero(invoices[i].tax_rate))

\* A patch of the tax rate alone has changed the amount of an invoice with items.
C1_Witness ==
  /\ Req.op = "patch" /\ Req.res = "Ok"
  /\ ~IsDefined(Req.body.items) /\ IsDefined(Req.body.tax_rate)
  /\ HasItems(After) /\ After.amount # Before.amount

(***************************************************************************)
(* C2: after any sequence of create and patch requests, every stored       *)
(* invoice whose items are absent or empty has tax_rate absent.            *)
(***************************************************************************)
C2_NoItemsNoTax ==
  \A i \in Ids :
    IsRow(invoices[i]) /\ ~HasItems(invoices[i]) => invoices[i].tax_rate = Null

C4_EmptyItemsClearTax ==
  Req.op = "patch" /\ Req.res = "Ok" /\ Req.body.items = Arr(<<>>) =>
    After.items = Null /\ After.tax_rate = Null

(***************************************************************************)
(* C5: a patch containing non-empty items stores tax_rate = patch.tax_rate *)
(* when given and 0 when not (the existing tax_rate is not carried over),  *)
(* and the recomputed amount uses that rate.                               *)
(***************************************************************************)
C5_NewItemsResetTax ==
  Req.op = "patch" /\ Req.res = "Ok" /\ BodyHasItems(Req.body) =>
    /\ After.tax_rate = Num(TaxOrZero(Req.body.tax_rate))
    /\ After.amount = TotalMinorUnits(Req.body.items.v, TaxOrZero(Req.body.tax_rate))

(***************************************************************************)
(* C6: with the effective items and tax rate of a patch (patch value if    *)
(* provided, else existing): non-empty effective items give the stored     *)
(* amount recomputed from them, ignoring patch.amount; empty effective     *)
(* items give patch.amount when provided, else the existing amount.        *)
(***************************************************************************)
C6_FinalAmount ==
  Req.op = "patch" /\ Req.res = "Ok" =>
    After.amount = PatchResolvedAmount

\* A patch carried an amount that was overridden by the total of the items.
C6_Witness ==
  /\ Req.op = "patch" /\ Req.res = "Ok"
  /\ IsDefined(Req.body.amount) /\ HasItems(After)
  /\ After.amount # Req.body.amount.v

(***************************************************************************)
(* C7: a patch whose resolved final amount is not > 0 fails with           *)
(* InvalidAmount and changes no field of the stored invoice.               *)
(***************************************************************************)
C7_InvalidAmountAllOrNothing ==
  PatchReachedRow /\ ~(PatchResolvedAmount > 0) =>
    Req.res = "InvalidAmount" /\ invoices = last.before

\* A patch replacing the items of an invoice by zero-rate items, and
\* carrying a tax rate too, was refused.
C7_Witness ==
  /\ Req.op = "patch" /\ Req.res = "InvalidAmount"
  /\ Req.body.items = Arr(<<Free>>) /\ IsDefined(Req.body.tax_rate)
  /\ HasItems(Before) /\ Before.tax_rate # Req.body.tax_rate

(***************************************************************************)
(* C8 (as stated): create fails with InvalidAmount, inserting no row, when *)
(* items are absent/empty and amount is absent or <= 0, or when the total  *)
(* derived from the items is not a positive integer.                       *)
(***************************************************************************)
C8_Original ==
  Req.op = "create" /\
    ( \/ BodyNoItems(Req.body) /\ (~IsDefined(Req.body.amount) \/ Req.body.amount.v <= 0)
      \/ BodyHasItems(Req.body) /\ ~(TotalMinorUnits(Req.body.items.v, TaxOrZero(Req.body.tax_rate)) > 0) )
  => Req.res = "InvalidAmount" /\ invoices = last.before

(***************************************************************************)
(* C8 (amended): create inserts no row and fails with InvalidAmount when   *)
(* items are absent/empty and amount is absent, or when the total derived  *)
(* from the items is not positive; a supplied amount <= 0 is refused       *)
(* before that, by the schema, as ValidationFailed, again with no row      *)
(* inserted.                                                               *)
(***************************************************************************)
C8_Amended ==
  Req.op = "create" =>
    /\ IsDefined(Req.body.amount) /\ Req.body.amount.v <= 0 =>
         Req.res = "ValidationFailed" /\ invoices = last.before
    /\ ~IsDefined(Req.body.amount) /\ BodyNoItems(Req.body) =>
         Req.res = "InvalidAmount" /\ invoices = last.before
    /\ ~(IsDefined(Req.body.amount) /\ Req.body.amount.v <= 0) /\ BodyHasItems(Req.body)
         /\ ~(TotalMinorUnits(Req.body.items.v, TaxOrZero(Req.body.tax_rate)) > 0) =>
         Req.res = "InvalidAmount" /\ invoices = last.before

\* A create whose items total 0 was refused with a free row still available.
C8_Witness ==
  /\ Req.op = "create" /\ Req.res = "InvalidAmount"
  /\ Req.body.items = Arr(<<Free>>)
  /\ FreeIds # {}

(***************************************************************************)
(* C9: create with non-empty items stores the computed total (ignoring any *)
(* amount in the input) and tax_rate = the given rate or 0; create with    *)
(* absent or empty items stores the supplied amount, items absent and      *)
(* tax_rate absent even when a tax_rate was supplied.                      *)
(***************************************************************************)
C9_CreateStores ==
  Req.op = "create" /\ Req.res = "Created" =>
    IF BodyHasItems(Req.body)
    THEN /\ After.amount = TotalMinorUnits(Req.body.items.v, TaxOrZero(Req.body.tax_rate))
         /\ After.items = Arr(Req.body.items.v)
         /\ After.tax_rate = Num(TaxOrZero(Req.body.tax_rate))
    ELSE /\ After.amount = Req.body.amount.v
         /\ After.items = Null
         /\ After.tax_rate = Null

\* An invoice was created without items from a body that carried a tax rate.
C9_Witness ==
  /\ Req.op = "create" /\ Req.res = "Created"
  /\ BodyNoItems(Req.body) /\ IsDefined(Req.body.tax_rate)

(***************************************************************************)
(* C10: for any interleaving of two patch requests on the same invoice,    *)
(* the final stored row equals the result of applying the two patches one  *)
(* after the other in some order, so it still satisfies the items/amount   *)
(* invariant.                                                              *)
(***************************************************************************)
\* The row a patch handled alone leaves behind.
PatchedAlone(row, body) ==
  IF ~IsRow(row) \/ ~PatchSchema(body) THEN row
  ELSE IF PatchAmountInvalid(row, body) \/ NoUpdates(PatchUpdates(row, body)) THEN row
  ELSE UpdateRow(row, PatchUpdates(row, body))

C10_Serializable ==
  LET a == inflight["a"].req
      b == inflight["b"].req
  IN  (\A s \in Slots : inflight[s].pc = "done") /\ a.id = b.id =>
        /\ invoices[a.id] \in { PatchedAlone(PatchedAlone(base[a.id], a.body), b.body),
                               PatchedAlone(PatchedAlone(base[a.id], b.body), a.body) }
        /\ C1_AmountMatchesItems

(***************************************************************************)
(* Vocabulary of the life-cycle properties.                                *)
(***************************************************************************)
PatchOk == Req.op = "patch" /\ Req.res = "Ok"
OthersUntouched == \A i \in Ids : i # Req.id => invoices[i] = last.before[i]
NoMoneyInBody(body) ==
  ~IsDefined(body.items) /\ ~IsDefined(body.tax_rate) /\ ~IsDefined(body.amount)
IdentityKept ==
  /\ After.user_id = Before.user_id
  /\ After.created_at = Before.created_at
  /\ After.id = Before.id
  /\ After.status = Before.status
OwnedBefore == Req.id \in Ids /\ IsRow(Before) /\ Before.user_id = Req.user

(***************************************************************************)
(* C11, as stated: a patch is a field-level merge: every field absent from *)
(* the patch keeps its stored value, and id, user_id, created_at and       *)
(* status are never changed by a patch.                                    *)
(***************************************************************************)
C11_Original ==
  PatchOk =>
    /\ \A f \in {"amount", "customer", "items", "tax_rate"} :
         ~IsDefined(Req.body[f]) => After[f] = Before[f]
    /\ IdentityKept
    /\ OthersUntouched

(***************************************************************************)
(* C11, amended: customer, items and tax_rate absent from the patch keep   *)
(* their stored value; amount absent from the patch keeps its stored value *)
(* when the patched invoice has no items, and is the recomputed total when *)
(* it has; a patch without items, tax_rate and amount leaves all three     *)
(* unchanged; id, user_id, created_at and status are never changed by a    *)
(* patch, and no other invoice is.                                         *)
(***************************************************************************)
C11_Amended ==
  PatchOk =>
    /\ \A f \in {"customer", "items", "tax_rate"} :
         ~IsDefined(Req.body[f]) => After[f] = Before[f]
    /\ (~IsDefined(Req.body.amount) /\ ~HasItems(After)) => After.amount = Before.amount
    /\ (~IsDefined(Req.body.amount) /\ HasItems(After)) =>
         After.amount = TotalMinorUnits(After.items.v, TaxOrZero(After.tax_rate))
    /\ NoMoneyInBody(Req.body) =>
         /\ After.items = Before.items
         /\ After.tax_rate = Before.tax_rate
         /\ After.amount = Before.amount
    /\ IdentityKept
    /\ OthersUntouched

\* A patch of the customer alone has renamed a paid invoice with items and a tax rate.
C11_Witness ==
  /\ PatchOk
  /\ NoMoneyInBody(Req.body)
  /\ HasItems(Before)
  /\ Before.tax_rate # Null
  /\ Before.status = "paid"
  /\ After.customer # Before.customer

(***************************************************************************)
(* C12: applying the same patch without items, tax_rate and amount a       *)
(* second time leaves the table as the first application left it.          *)
(***************************************************************************)
C12_NonMoneyPatchIdempotent ==
  [][ ( /\ last'.req.op = "patch"
        /\ last'.req.res = "Ok"
        /\ NoMoneyInBody(last'.req.body)
        /\ last.req = last'.req )
      => invoices' = invoices ]_vars

\* The same customer-only patch has been applied again to an invoice with
\* items and a tax rate that already carries the patch's customer.
C12_Witness ==
  /\ PatchOk
  /\ NoMoneyInBody(Req.body)
  /\ HasItems(Before)
  /\ Before.tax_rate # Null
  /\ Before.customer = Req.body.customer.v
  /\ invoices = last.before

(***************************************************************************)
(* C13: markPaid of an invoice of the caller succeeds whatever the current *)
(* status, leaves the invoice with status paid and every other field as it *)
(* was (so a second markPaid changes nothing), and touches no other row.   *)
(***************************************************************************)
C13_MarkPaid ==
  (Req.op = "pay" /\ OwnedBefore) =>
    /\ Req.res = "Ok"
    /\ After = [Before EXCEPT !.status = "paid"]
    /\ OthersUntouched

\* markPaid has been applied to an invoice that was already paid.
C13_Witness ==
  /\ Req.op = "pay"
  /\ OwnedBefore
  /\ Before.status = "paid"
  /\ Req.res = "Ok"

(***************************************************************************)
(* C14: no request changes an invoice whose user_id is not the caller, and *)
(* a (well-formed) patch or a markPaid naming an invoice that does not     *)
(* exist or is not owned by the caller ends with NotFound and leaves all   *)
(* stored invoices unchanged.                                              *)
(***************************************************************************)
C14_OwnerIsolation ==
  /\ \A i \in Ids :
       (IsRow(last.before[i]) /\ last.before[i].user_id # Req.user) => invoices[i] = last.before[i]
  /\ ( /\ Req.op \in {"patch", "pay"}
       /\ Req.op = "patch" => PatchSchema(Req.body)
       /\ ~OwnedBefore )
     => (Req.res = "NotFound" /\ invoices = last.before)

(***************************************************************************)
(* C15: every invoice is created with status pending, and the status of a  *)
(* stored invoice only moves from pending to paid or from pending to void: *)
(* a paid invoice never returns to pending and never becomes void, a void  *)
(* invoice never becomes paid.                                             *)
(***************************************************************************)
C15_StatusMoves ==
  [][ \A i \in Ids :
        IsRow(invoices'[i]) =>
          IF IsRow(invoices[i])
          THEN \/ invoices'[i].status = invoices[i].status
               \/ invoices[i].status = "pending" /\ invoices'[i].status \in {"paid", "void"}
          ELSE invoices'[i].status = "pending" ]_vars

\* A paid invoice has been marked paid again by the payment confirmation
\* and is still paid.
C15_Witness ==
  /\ Req.op = "confirm"
  /\ OwnedBefore
  /\ Before.status = "paid"
  /\ After.status = "paid"

(***************************************************************************)
(* Vocabulary of the artifact properties.                                  *)
(***************************************************************************)
ArtifactServed == art.op \in {"pdf", "share"} /\ IsRow(art.inv)
ValidSlugChar(c) ==
  c \in {"a", "b", "c", "d", "e", "f", "g", "h", "i", "j", "k", "l", "m", "n", "o", "p", "q",
         "r", "s", "t", "u", "v", "w", "x", "y", "z",
         "0", "1", "2", "3", "4", "5", "6", "7", "8", "9", "-"}
SlugShape(out) ==
  /\ Len(out) <= 50
  /\ \A k \in 1 .. Len(out) : ValidSlugChar(out[k])
  /\ \A k \in 1 .. Len(out) - 1 : ~(out[k] = "-" /\ out[k + 1] = "-")
  /\ out # <<>> => out[1] # "-"
EndsWithHyphen(out) == out # <<>> /\ out[Len(out)] = "-"
AcmeSlug == <<"a", "c", "m", "e", "-", "c", "o", "-", "l", "t", "d">>

(***************************************************************************)
(* C16: a pdf or share request renders and uploads only when no object     *)
(* exists at the invoice's storage key when the request looks it up, and   *)
(* an existing artifact is neither re-rendered nor overwritten.            *)
(***************************************************************************)
C16_RenderOnlyOnMiss ==
  ArtifactServed =>
    /\ art.rendered => ~art.existed
    /\ art.existed => ~art.uploaded

(***************************************************************************)
(* C17: the storage key of an invoice is the same at every point of its    *)
(* life: no patch and no markPaid changes it.                              *)
(***************************************************************************)
C17_KeyStable ==
  (Req.op \in {"patch", "pay"} /\ Req.res = "Ok") =>
    PdfStoragePath(After.user_id, After) = PdfStoragePath(Before.user_id, Before)

(***************************************************************************)
(* C18: the storage key a pdf or share request computes is                 *)
(* "{user_id}/invoice-{slug(customer)}-{day of created_at}-{first 8        *)
(* characters of id}.pdf" of the invoice it serves, the same for both      *)
(* routes.                                                                 *)
(***************************************************************************)
C18_KeyFormat ==
  ArtifactServed =>
    art.key = [folder |-> art.inv.user_id,
               name |-> <<"invoice", safe(art.inv.customer), art.inv.created_at \div 2,
                          SubSeq(art.inv.id, 1, 8)>>]

\* A share request has found an object at the key it computed, the key
\* where the document of a pdf request of the same invoice lies.
C18_Witness ==
  /\ art.op = "share"
  /\ IsRow(art.inv)
  /\ art.existed
  /\ ~art.rendered
  /\ \E b \in blobs : b.key = art.key /\ b.bytes.doc = "full"

(***************************************************************************)
(* C19, as stated: the slug of any customer name has at most 50            *)
(* characters, all of them lowercase letters, digits or hyphens, no two    *)
(* hyphens adjacent, and no hyphen at its start or at its end.             *)
(***************************************************************************)
C19_Original ==
  slug.done => (SlugShape(slug.out) /\ ~EndsWithHyphen(slug.out))

(***************************************************************************)
(* C19, amended: the slug has at most 50 characters, all of them lowercase *)
(* letters, digits or hyphens, no two hyphens adjacent, no hyphen at its   *)
(* start, and a hyphen at its end only when it was cut at 50 characters;   *)
(* "Acme & Co. Ltd!!" gives "acme-co-ltd".                                 *)
(***************************************************************************)
C19_Amended ==
  slug.done =>
    /\ SlugShape(slug.out)
    /\ EndsWithHyphen(slug.out) => Len(slug.out) = 50
    /\ slug.s = AcmeName => slug.out = AcmeSlug

\* A slug cut at 50 characters ends with the hyphen that stood before the
\* rest of the name.
C19_Witness ==
  /\ slug.done
  /\ Len(slug.out) = 50
  /\ EndsWithHyphen(slug.out)
  /\ Len(slug.s) > 50

(***************************************************************************)
(* C20: whenever share returns a signed URL, an object exists at the       *)
(* invoice's storage key when the URL is signed: on a miss the artifact    *)
(* has been rendered and successfully uploaded before signing.             *)
(***************************************************************************)
C20_SignedImpliesObject ==
  (art.op = "share" /\ IsRow(art.inv) /\ art.res = "Ok") =>
    /\ art.existed \/ art.uploaded
    /\ ~art.existed => (art.rendered /\ art.uploaded)

C21_StorageErrorsSurface ==
  (ArtifactServed /\ art.rendered /\ ~art.uploaded) => art.res = "StorageUnavailable"

(***************************************************************************)
(* C25: for any interleaving of calls of ensureInvoiceBucket, no call      *)
(* reports an error to its request, a create attempt on a bucket that      *)
(* already exists ends the call like a success, and a bucket once created  *)
(* stays.                                                                  *)
(***************************************************************************)
C25_EnsureBucketTolerant ==
  /\ [](\A c \in Callers :
          /\ ~ensure[c].error
          /\ ensure[c].pc = "done" => ensure[c].how \in {"found", "created", "refused", "failed", "caught"}
          /\ (ensure[c].pc = "done" /\ ensure[c].how \in {"found", "created", "refused"}) => bucket)
  /\ [][bucket => bucket']_vars

\* Two callers both saw the bucket missing; one created it and the other's
\* create attempt was refused, and both calls have ended without an error.
C25_Witness ==
  \E c, d \in Callers :
    /\ ensure[c].pc = "done" /\ ensure[c].how = "created"
    /\ ensure[d].pc = "done" /\ ensure[d].how = "refused"
    /\ bucket

(***************************************************************************)
(* Vocabulary of the wallet properties.                                    *)
(***************************************************************************)
RECURSIVE SumOver(_, _)
SumOver(ks, f) ==
  IF ks = {} THEN 0
  ELSE LET k == CHOOSE x \in ks : TRUE IN f[k] + SumOver(ks \ {k}, f)

ConfirmedAmounts ==
  [k \in IntentIds |->
     IF intents[k] # NoIntent /\ intents[k].status = "confirmed" THEN intents[k].amount_cents ELSE 0]
CreditedAmounts ==
  [k \in IntentIds |-> IF intents[k] # NoIntent THEN ledger[k] * intents[k].amount_cents ELSE 0]

C27_CreditedOnce ==
  \A k \in IntentIds : ledger[k] <= 1

(***************************************************************************)
(* C28: whenever no confirm request is in flight, the balance of the       *)
(* wallet equals the sum of the amounts of its credit rows.                *)
(***************************************************************************)
C28_BalanceMatchesLedger ==
  NoConfirmInFlight => wallet = SumOver(IntentIds, CreditedAmounts)
\* C29: two distinct invoices of the same user never have the same
\* storage key.
C29_DistinctKeys ==
  \A i, j \in DOMAIN invoices :
    (i # j /\ IsRow(invoices[i]) /\ IsRow(invoices[j]) /\ invoices[i].user_id = invoices[j].user_id)
      => PdfStoragePath(invoices[i].user_id, invoices[i]) # PdfStoragePath(invoices[j].user_id, invoices[j])

\* A share request that finds an object and signs it finds an object that
\* was made from the requested invoice.
SharedObjectIsOwn ==
  (art.op = "share" /\ art.res = "Ok" /\ ~art.rendered)
    => \A b \in blobs : (b.key = art.key /\ b.bytes.doc = "full") => b.bytes.inv.id = art.inv.id

\* C22: the absence of the signing secret is never first detected while
\* handling a request (a process without the secret serves no request).
C22_SecretCheckedAtStartup == pub.res # "SecretNotSet"

\* The token of a stored invoice, written out from its row.
TokenOf(inv) == Hmac(secret.v, UserText(inv.user_id) \o <<":">> \o inv.id)

Viewed == pub.op = "view" /\ IsRow(pub.inv)

\* C30: the public route returns invoice fields only when the supplied token
\* is the HMAC of "user_id:invoice_id" of the requested invoice under the
\* secret; the token of one invoice presented for another invoice is
\* answered 403; the response never contains user_id.
C30_TokenGuardsView ==
  /\ (pub.op = "view" /\ pub.body # NoBody)
       => /\ Viewed /\ SecretSet /\ pub.res = "Ok"
          /\ pub.token = TokenOf(pub.inv)
          /\ pub.body = PublicBody(pub.inv)
  /\ (Viewed /\ SecretSet)
       => \A j \in DOMAIN invoices :
            (j # pub.id /\ IsRow(invoices[j]) /\ pub.token = TokenOf(invoices[j]))
              => pub.res = "Forbidden"
  /\ "user_id" \notin DOMAIN pub.body

C30_Witness ==
  /\ Viewed /\ SecretSet /\ pub.res = "Forbidden"
  /\ \E j \in DOMAIN invoices :
       j # pub.id /\ IsRow(invoices[j]) /\ pub.token = TokenOf(invoices[j])
          /\ invoices[j].user_id = pub.inv.user_id

C30_Served == Viewed /\ pub.res = "Ok" /\ pub.body = PublicBody(pub.inv)

====
